---- MODULE Spec2Model ----
(***************************************************************************)
(* XLOS Pro window and desktop manager (src/XLOS_Pro.py): Window,          *)
(* Desktop and the main event loop, as a state machine.  One step is the   *)
(* processing of one raw input event by the body of the main loop, or one  *)
(* rendering pass (Desktop.draw), or the passing of wall-clock time.       *)
(***************************************************************************)
EXTENDS Integers, Sequences, FiniteSets, TLC

(* ---------- CONFIG (src/XLOS_Pro.py:45-54) ---------- *)
W == 1280
H == 720
TITLEBAR_H == 32
TASKBAR_H == 44
RESIZE_GRIP == 12
MIN_W == 220
MIN_H == 140
ICON_SIZE == 64
(* double-click interval of Desktop.handle_event, 0.35 s, in milliseconds *)
DOUBLE_CLICK_MS == 350

(* ---------- bounds of the model ---------- *)
(* number of raw input events (or direct method calls) taken from the stream *)
MaxEvents == 5
MaxPowerEvents == 5
MaxDragEvents == 8
MaxToggleEvents == 5
MaxCalls == 5
MaxTaskEvents == 7
MaxFocusEvents == 6
MaxMinEvents == 5
MaxIconEvents == 5
MaxMenuEvents == 5
MaxChromeEvents == 6
MaxDropEvents == 5
MaxCornerEvents == 5
MaxLifeEvents == 5
MaxRestoreEvents == 6
MaxAltTabEvents == 5
(* milliseconds of wall-clock time that pass in one Tick step *)
TickMs == 175

VARIABLES
    windows,       \* Desktop.windows: the z-order, tail = topmost
    icons,         \* Desktop.icons
    start_open,    \* Desktop.start_open
    power_open,    \* Desktop.power_open
    sleeping,      \* Desktop.sleeping
    start_btn,     \* Desktop.start_btn as left by the last draw_taskbar
    task_buttons,  \* Desktop.task_buttons as left by the last draw_taskbar
    menu_rect,     \* Desktop.menu_rect
    menu_items,    \* TRUE once draw_start_menu has set menu_items / power_btn
    power_rect,    \* TRUE once draw_power_dialog has set power_rect
    screen,        \* size of the display surface, <<sw, sh>>
    seq,           \* Window._seq
    status,        \* "run" | "quit" (running = False) | "crashed" | "exited"
    ev,            \* the raw event processed by the last step
    appEvents,     \* ids of the windows whose App.handle_event ran for ev, in call order
    did,           \* history: the handler branches that acted on ev, in order
    toggle,        \* history: the run of maximize toggles the latest events applied
    recency,       \* history: open window ids by time of last focus()/spawn, latest last
    nev            \* number of events processed so far

vars == <<windows, icons, start_open, power_open, sleeping, start_btn,
          task_buttons, menu_rect, menu_items, power_rect, screen, seq,
          status, ev, appEvents, did, toggle, recency, nev>>

(* ---------- integer and sequence helpers ---------- *)
Max(a, b) == IF a >= b THEN a ELSE b
Min(a, b) == IF a <= b THEN a ELSE b
Last(s) == s[Len(s)]
Reverse(s) == [i \in 1..Len(s) |-> s[Len(s) + 1 - i]]
RemoveAt(s, i) == SubSeq(s, 1, i - 1) \o SubSeq(s, i + 1, Len(s))
Ids(ws) == {ws[i].z : i \in 1..Len(ws)}
IndexOf(ws, z) == CHOOSE i \in 1..Len(ws) : ws[i].z = z
Range(s) == {s[i] : i \in 1..Len(s)}
Without(s, v) == LET keep(u) == u # v IN SelectSeq(s, keep)

(* ---------- pygame.Rect ---------- *)
Rect(x, y, w, h) == [x |-> x, y |-> y, w |-> w, h |-> h]
NoRect == Rect(0, 0, 0, 0)
(* Rect.collidepoint: left <= px < right and top <= py < bottom *)
Collide(r, p) == /\ r.x <= p[1] /\ p[1] < r.x + r.w
                 /\ r.y <= p[2] /\ p[2] < r.y + r.h

(* ---------- App registry ---------- *)
APP_MAP == <<"Notes", "Sketch", "Settings", "Calculator", "Snake",
             "TicTacToe", "Finder", "XL DRIFT", "ChatApp">>
IconNames == <<"Notes", "Sketch", "Settings", "Calculator", "Snake",
               "TicTacToe", "Finder", "XL DRIFT", "ChatApp">>

(* ---------- Window ---------- *)
(* Window.__init__: z is the id; px..ph is _pre_max_rect; alias says that  *)
(* rect and _pre_max_rect are one and the same Rect object; btns says that *)
(* draw() has set _btns, and br, bt are the title bar's right edge and top *)
(* at that draw, from which the three button rects were computed.          *)
NewWindow(app, rect, id) ==
    [z |-> id, app |-> app, x |-> rect.x, y |-> rect.y, w |-> rect.w, h |-> rect.h,
     minimized |-> FALSE, maximized |-> FALSE, dragging |-> FALSE, resizing |-> FALSE,
     offx |-> 0, offy |-> 0,
     px |-> rect.x, py |-> rect.y, pw |-> rect.w, ph |-> rect.h, alias |-> FALSE,
     btns |-> FALSE, br |-> 0, bt |-> 0]

Frame(win) == Rect(win.x, win.y, win.w, win.h)
PreMax(win) == Rect(win.px, win.py, win.pw, win.ph)
titlebar_rect(win) == Rect(win.x, win.y, win.w, TITLEBAR_H)
content_rect(win) == Rect(win.x, win.y + TITLEBAR_H, win.w, win.h - TITLEBAR_H)
grip_rect(win) == Rect(win.x + win.w - RESIZE_GRIP, win.y + win.h - RESIZE_GRIP,
                       RESIZE_GRIP, RESIZE_GRIP)

(* the k-th (0 = 'x', 1 = maximize, 2 = minimize) button rect left by draw() *)
BtnRect(win, k) == Rect(win.br - 28 - 26 * k, win.bt + 6, 22, 18)
BtnLabels == <<"x", "max", "min">>
(* Window._hit_title_buttons, for a window that has _btns *)
_hit_title_buttons(win, pos) ==
    IF \E k \in 0..2 : Collide(BtnRect(win, k), pos)
    THEN BtnLabels[1 + CHOOSE k \in 0..2 :
                         /\ Collide(BtnRect(win, k), pos)
                         /\ \A j \in 0..(k - 1) : ~Collide(BtnRect(win, j), pos)]
    ELSE "none"

(* a write through self.rect also shows through an aliased _pre_max_rect *)
Aliased(win) == IF win.alias
                THEN [win EXCEPT !.px = win.x, !.py = win.y, !.pw = win.w, !.ph = win.h]
                ELSE win

(* the drag branch of Window.handle_event on MOUSEMOTION *)
DragTo(win, pos, scr) ==
    LET nx == Max(-win.w + 60, Min(pos[1] - win.offx, scr[1] - 60))
        ny == Max(0, Min(pos[2] - win.offy, scr[2] - TASKBAR_H - TITLEBAR_H))
    IN  Aliased([win EXCEPT !.x = nx, !.y = ny])

(* the resize branch of Window.handle_event on MOUSEMOTION *)
ResizeTo(win, pos, scr) ==
    LET nx == Min(Max(MIN_W, pos[1] - win.x), scr[1] - win.x - 10)
        ny == Min(Max(MIN_H, pos[2] - win.y), scr[2] - TASKBAR_H - win.y - 10)
    IN  Aliased([win EXCEPT !.w = nx, !.h = ny])

(* Window.handle_event: the window after the event, whether the hosted     *)
(* App's handle_event was called, and whether an exception was raised.     *)
WinResult(win, app, crash) == [win |-> win, app |-> app, crash |-> crash]
(* a dispatch that does not test minimized *)
WindowHandleEvent_awake(win, e, scr) ==
    IF e.type = "up" /\ e.button = 1 THEN
        WinResult([win EXCEPT !.dragging = FALSE, !.resizing = FALSE], TRUE, FALSE)
    ELSE IF e.type = "move" THEN
        LET w1 == IF win.dragging THEN DragTo(win, e.pos, scr) ELSE win
            w2 == IF w1.resizing THEN ResizeTo(w1, e.pos, scr) ELSE w1
        IN  WinResult(w2, TRUE, FALSE)
    ELSE WinResult(win, TRUE, FALSE)
WindowHandleEvent(win, e, scr) ==
    IF win.minimized THEN WinResult(win, FALSE, FALSE)
    ELSE IF e.type = "down" /\ e.button = 1 THEN
        IF Collide(titlebar_rect(win), e.pos) THEN
            IF ~win.btns THEN WinResult(win, FALSE, TRUE)
            ELSE IF _hit_title_buttons(win, e.pos) # "none"
                 THEN WinResult(win, FALSE, FALSE)
                 ELSE WinResult([win EXCEPT !.dragging = TRUE,
                                            !.offx = e.pos[1] - win.x,
                                            !.offy = e.pos[2] - win.y], TRUE, FALSE)
        ELSE IF Collide(grip_rect(win), e.pos)
             THEN WinResult([win EXCEPT !.resizing = TRUE], TRUE, FALSE)
             ELSE WinResult(win, TRUE, FALSE)
    ELSE IF e.type = "up" /\ e.button = 1 THEN
        WinResult([win EXCEPT !.dragging = FALSE, !.resizing = FALSE], TRUE, FALSE)
    ELSE IF e.type = "move" THEN
        LET w1 == IF win.dragging THEN DragTo(win, e.pos, scr) ELSE win
            w2 == IF w1.resizing THEN ResizeTo(w1, e.pos, scr) ELSE w1
        IN  WinResult(w2, TRUE, FALSE)
    ELSE WinResult(win, TRUE, FALSE)

(* ---------- events ---------- *)
(* a raw event; mouse is what pygame.mouse.get_pos() answers while it is handled *)
Event(type, pos, button, key, size, mouse) ==
    [type |-> type, pos |-> pos, button |-> button, key |-> key, size |-> size,
     mouse |-> mouse]
NoEvent == Event("none", <<0, 0>>, 0, "", <<0, 0>>, <<0, 0>>)

(* ---------- Desktop ---------- *)
(* the part of the program state that event handling reads and writes *)
Cur == [windows |-> windows, icons |-> icons, start_open |-> start_open,
        power_open |-> power_open, sleeping |-> sleeping, screen |-> screen,
        seq |-> seq, status |-> status, appEvents |-> <<>>, did |-> <<>>,
        recency |-> recency]

Raise(D) == [D EXCEPT !.status = "crashed"]
(* history: note which branch of the handlers acted on the event *)
Did(D, what) == [D EXCEPT !.did = Append(D.did, what)]
Alive(D) == D.status \in {"run", "quit"}

(* Desktop.__init__: the icon grid; age is now - last_click in ms, -1 when *)
(* last_click is absent or 0                                               *)
InitIcons ==
    [i \in 1..Len(IconNames) |->
        [name |-> IconNames[i],
         x |-> 24 + ((i - 1) % 2) * (ICON_SIZE + 24),
         y |-> 24 + ((i - 1) \div 2) * (ICON_SIZE + 24),
         age |-> -1, dragging |-> FALSE, offx |-> 0, offy |-> 0]]
IconRect(ico) == Rect(ico.x, ico.y, ICON_SIZE, ICON_SIZE)

(* a focus that leaves the window where it is in the list *)
focus_inplace(D, z) ==
    IF z \in Ids(D.windows)
    THEN [D EXCEPT !.recency = Append(Without(D.recency, z), z)]
    ELSE D

(* Desktop.focus *)
focus(D, z) ==
    IF D.windows # <<>> /\ Last(D.windows).z # z
    THEN IF z \notin Ids(D.windows)
         THEN Raise(D)      \* list.remove(win): ValueError
         ELSE LET i == IndexOf(D.windows, z)
              IN  [D EXCEPT !.windows = Append(RemoveAt(D.windows, i), D.windows[i]),
                            !.recency = Append(Without(D.recency, z), z)]
    ELSE IF D.windows # <<>>
         THEN [D EXCEPT !.recency = Append(Without(D.recency, z), z)]
         ELSE D

(* Desktop.close *)
close(D, z) ==
    IF z \in Ids(D.windows)
    THEN [D EXCEPT !.windows = RemoveAt(D.windows, IndexOf(D.windows, z)),
                   !.recency = Without(D.recency, z)]
    ELSE D

(* a spawn that puts every window at the first cascade position *)
spawn_window_nocascade(D, app_name, size) ==
    LET rect == Rect(180, 120, Max(MIN_W, size[1]), Max(MIN_H, size[2]))
    IN  IF app_name \notin Range(APP_MAP)
        THEN Raise(D)
        ELSE focus([D EXCEPT !.windows = Append(D.windows,
                                                NewWindow(app_name, rect, D.seq)),
                             !.seq = D.seq + 1,
                             !.recency = Append(D.recency, D.seq)],
                   D.seq)

(* a spawn that does nothing when the registry does not know the name *)
spawn_window_silent(D, app_name, size) ==
    LET n == Len(D.windows)
        rect == Rect(180 + n * 16, 120 + n * 12,
                     Max(MIN_W, size[1]), Max(MIN_H, size[2]))
    IN  IF app_name \notin Range(APP_MAP)
        THEN D
        ELSE focus([D EXCEPT !.windows = Append(D.windows,
                                                NewWindow(app_name, rect, D.seq)),
                             !.seq = D.seq + 1,
                             !.recency = Append(D.recency, D.seq)],
                   D.seq)

(* Desktop.spawn_window *)
spawn_window(D, app_name, size) ==
    LET n == Len(D.windows)
        rect == Rect(180 + n * 16, 120 + n * 12,
                     Max(MIN_W, size[1]), Max(MIN_H, size[2]))
    IN  IF app_name \notin Range(APP_MAP)
        THEN Raise(D)       \* APP_MAP[app_name]: KeyError
        ELSE focus([D EXCEPT !.windows = Append(D.windows,
                                                NewWindow(app_name, rect, D.seq)),
                             !.seq = D.seq + 1,
                             !.recency = Append(D.recency, D.seq)],
                   D.seq)
DefaultSize == <<520, 360>>
WelcomeSize == <<540, 420>>

(* a toggle that clears the flag of a maximized window but keeps its frame *)
ToggleMaximize_keepframe(win, scr) ==
    IF ~win.maximized
    THEN [win EXCEPT !.px = win.x, !.py = win.y, !.pw = win.w, !.ph = win.h,
                     !.alias = FALSE,
                     !.x = 8, !.y = 8, !.w = scr[1] - 16, !.h = scr[2] - TASKBAR_H - 16,
                     !.maximized = TRUE]
    ELSE [win EXCEPT !.maximized = FALSE]

(* the maximize toggle of Desktop.handle_event (the '□' title button) *)
ToggleMaximize(win, scr) ==
    IF ~win.maximized
    THEN [win EXCEPT !.px = win.x, !.py = win.y, !.pw = win.w, !.ph = win.h,
                     !.alias = FALSE,
                     !.x = 8, !.y = 8, !.w = scr[1] - 16, !.h = scr[2] - TASKBAR_H - 16,
                     !.maximized = TRUE]
    ELSE [win EXCEPT !.x = win.px, !.y = win.py, !.w = win.pw, !.h = win.ph,
                     !.alias = TRUE, !.maximized = FALSE]

SetWin(D, i, win) == [D EXCEPT !.windows[i] = win]

(* index of the topmost non-minimized window whose frame contains p, or 0 *)
TopmostAt(ws, p) ==
    LET hit == {i \in 1..Len(ws) : ~ws[i].minimized /\ Collide(Frame(ws[i]), p)}
    IN  IF hit = {} THEN 0 ELSE CHOOSE i \in hit : \A j \in hit : j <= i

(* index of the first element of a sequence of rect-carrying records hit by p, or 0 *)
FirstHit(rs, p) ==
    LET hit == {i \in 1..Len(rs) : Collide(rs[i], p)}
    IN  IF hit = {} THEN 0 ELSE CHOOSE i \in hit : \A j \in hit : i <= j

(* rects left by draw_start_menu for the menu_rect it has set *)
MenuItemRects == [i \in 1..Len(APP_MAP) |->
                    Rect(menu_rect.x + 12, menu_rect.y + 58 + 44 * (i - 1), 260 - 24, 36)]
MenuRect == Rect(menu_rect.x, menu_rect.y, 260, 340)
PowerBtn == Rect(menu_rect.x + 12, menu_rect.y + 340 - 64, 260 - 24, 44)
(* rects of draw_power_dialog / the power section of handle_event *)
PowerRect == Rect(W \div 2 - 210, H \div 2 - 90, 420, 180)
PowerCmds == <<"shutdown", "restart", "sleep", "cancel">>
PowerCmdRects == [i \in 1..4 |->
                    Rect(PowerRect.x + 24 + (i - 1) * (92 + 12), PowerRect.y + 64, 92, 40)]

Result(d, ret) == [d |-> d, ret |-> ret]

(* ---- Desktop.handle_event, button-1 MOUSEBUTTONDOWN chain (lines 971-1026) ---- *)
(* each stage answers the desktop after it and whether handle_event returned *)

(* "Start button" *)
ClickStart(D, mouse) ==
    IF start_btn # NoRect /\ Collide(start_btn, mouse)
    THEN Result(Did([D EXCEPT !.start_open = ~D.start_open], "start"), TRUE)
    ELSE Result(D, FALSE)

(* "Click in start menu" *)
ClickMenu(D, mouse) ==
    IF ~D.start_open THEN Result(D, FALSE)
    ELSE LET item == IF menu_items THEN FirstHit(MenuItemRects, mouse) ELSE 0
         IN  IF item # 0
             THEN Result(Did([spawn_window(D, APP_MAP[item], DefaultSize)
                                 EXCEPT !.start_open = FALSE], "menu_spawn"), TRUE)
             ELSE IF menu_items /\ Collide(PowerBtn, mouse)
             THEN Result(Did([D EXCEPT !.power_open = TRUE, !.start_open = FALSE],
                             "power_open"), TRUE)
             ELSE IF Collide(MenuRect, mouse) THEN Result(D, FALSE)
             ELSE IF start_btn = NoRect
             THEN Result(Raise(D), TRUE)     \* self.start_btn: AttributeError
             ELSE IF ~Collide(start_btn, mouse)
             THEN Result(Did([D EXCEPT !.start_open = FALSE], "menu_close"), FALSE)
             ELSE Result(D, FALSE)

(* an icon click that opens the app on any second click, however late *)
ClickIcons_anysecond(D, mouse) ==
    LET i == FirstHit([k \in 1..Len(D.icons) |-> IconRect(D.icons[k])], mouse)
    IN  IF i = 0 THEN Result(D, FALSE)
        ELSE LET ico == D.icons[i]
             IN  IF ico.age # -1
                 THEN Result(Did([spawn_window(D, ico.name, DefaultSize)
                                     EXCEPT !.icons[i].age = -1], "icon_spawn"), TRUE)
                 ELSE Result(Did([D EXCEPT !.icons[i].age = 0,
                                           !.icons[i].dragging = TRUE,
                                           !.icons[i].offx = mouse[1] - ico.x,
                                           !.icons[i].offy = mouse[2] - ico.y],
                                 "icon_drag"), TRUE)

(* "Desktop icons double-click / drag" *)
ClickIcons(D, mouse) ==
    LET i == FirstHit([k \in 1..Len(D.icons) |-> IconRect(D.icons[k])], mouse)
    IN  IF i = 0 THEN Result(D, FALSE)
        ELSE LET ico == D.icons[i]
             IN  IF ico.age # -1 /\ ico.age < DOUBLE_CLICK_MS
                 THEN Result(Did([spawn_window(D, ico.name, DefaultSize)
                                     EXCEPT !.icons[i].age = -1], "icon_spawn"), TRUE)
                 ELSE Result(Did([D EXCEPT !.icons[i].age = 0,
                                           !.icons[i].dragging = TRUE,
                                           !.icons[i].offx = mouse[1] - ico.x,
                                           !.icons[i].offy = mouse[2] - ico.y],
                                 "icon_drag"), TRUE)

(* a taskbar click whose restore brings the window back not maximized, in *)
(* its saved frame                                                        *)
ClickTaskbar_restorenormal(D, mouse) ==
    LET b == FirstHit([k \in 1..Len(task_buttons) |-> task_buttons[k].rect], mouse)
    IN  IF b = 0 THEN Result(D, FALSE)
        ELSE LET z == task_buttons[b].z
             IN  IF z \notin Ids(D.windows)
                 THEN Result(Did(IF D.windows # <<>> THEN Raise(D) ELSE D,
                                 "task_stale"), TRUE)
                 ELSE LET i == IndexOf(D.windows, z)
                          win == D.windows[i]
                      IN  IF win.minimized
                          THEN Result(Did(focus(SetWin(D, i, [win EXCEPT
                                                !.minimized = FALSE,
                                                !.maximized = FALSE,
                                                !.x = win.px, !.y = win.py,
                                                !.w = win.pw, !.h = win.ph]), z),
                                          "task_restore"), TRUE)
                          ELSE IF Last(D.windows).z = z
                          THEN Result(Did(SetWin(D, i, [win EXCEPT
                                                !.minimized = TRUE]),
                                          "task_minimize"), TRUE)
                          ELSE Result(Did(focus(D, z), "task_focus"), TRUE)

(* a taskbar click that raises the window whatever its state *)
ClickTaskbar_raiseonly(D, mouse) ==
    LET b == FirstHit([k \in 1..Len(task_buttons) |-> task_buttons[k].rect], mouse)
    IN  IF b = 0 THEN Result(D, FALSE)
        ELSE IF task_buttons[b].z \notin Ids(D.windows) THEN Result(D, TRUE)
        ELSE Result(Did(focus(D, task_buttons[b].z), "task_focus"), TRUE)

(* "taskbar buttons" *)
ClickTaskbar(D, mouse) ==
    LET b == FirstHit([k \in 1..Len(task_buttons) |-> task_buttons[k].rect], mouse)
    IN  IF b = 0 THEN Result(D, FALSE)
        ELSE LET z == task_buttons[b].z
             IN  IF z \notin Ids(D.windows)
                 \* a window closed since the last draw: every branch that does
                 \* anything ends in focus(win)
                 THEN Result(Did(IF D.windows # <<>> THEN Raise(D) ELSE D,
                                 "task_stale"), TRUE)
                 ELSE LET i == IndexOf(D.windows, z)
                      IN  IF D.windows[i].minimized
                          THEN Result(Did(focus(SetWin(D, i, [D.windows[i] EXCEPT
                                                !.minimized = FALSE]), z),
                                          "task_restore"), TRUE)
                          ELSE IF Last(D.windows).z = z
                          THEN Result(Did(SetWin(D, i, [D.windows[i] EXCEPT
                                                !.minimized = TRUE]),
                                          "task_minimize"), TRUE)
                          ELSE Result(Did(focus(D, z), "task_focus"), TRUE)

(* "windows top-down" *)
ClickWindows(D, mouse) ==
    LET i == TopmostAt(D.windows, mouse)
    IN  IF i = 0 THEN Result(D, FALSE)
        ELSE LET win == D.windows[i]
             IN  IF Collide(titlebar_rect(win), mouse)
                 THEN IF ~win.btns
                      THEN Result(Raise(D), TRUE)     \* win._btns: AttributeError
                      ELSE LET action == _hit_title_buttons(win, mouse)
                           IN  IF action = "x"
                               THEN Result(Did(close(D, win.z), "close"), TRUE)
                               ELSE IF action = "min"
                               THEN Result(Did(SetWin(D, i, [win EXCEPT
                                                   !.minimized = TRUE]), "min"), TRUE)
                               ELSE IF action = "max"
                               THEN Result(Did(focus(SetWin(D, i,
                                                   ToggleMaximize(win, D.screen)), win.z),
                                               "max"), TRUE)
                               ELSE Result(Did(focus(D, win.z), "focus"), FALSE)
                 ELSE Result(Did(focus(D, win.z), "focus"), FALSE)

(* the chain: each stage runs only when no stage before it has returned *)
ThenMenu(r, mouse) == IF r.ret THEN r ELSE ClickMenu(r.d, mouse)
ThenIcons(r, mouse) == IF r.ret THEN r ELSE ClickIcons(r.d, mouse)
ThenTaskbar(r, mouse) == IF r.ret THEN r ELSE ClickTaskbar(r.d, mouse)
ThenWindows(r, mouse) == IF r.ret THEN r ELSE ClickWindows(r.d, mouse)
ClickChain(D, mouse) ==
    ThenWindows(ThenTaskbar(ThenIcons(ThenMenu(ClickStart(D, mouse), mouse), mouse),
                            mouse), mouse)

(* a restart that spawns the welcome window on top of the open ones *)
Restart_keepwindows(D) ==
    spawn_window(D, "Notes", WelcomeSize)

(* a restart that starts the window ids over *)
Restart_resetids(D) ==
    spawn_window([D EXCEPT !.windows = <<>>, !.recency = <<>>, !.seq = 0],
                 "Notes", WelcomeSize)

(* cmd == "restart": clear windows and respawn welcome *)
Restart(D) ==
    spawn_window([D EXCEPT !.windows = <<>>, !.recency = <<>>], "Notes", WelcomeSize)

(* a sleep that leaves the windows as they are *)
Sleep_nominimize(D) ==
    [D EXCEPT !.sleeping = TRUE]

(* cmd == "sleep" *)
Sleep(D) ==
    [D EXCEPT !.windows = [k \in 1..Len(D.windows) |->
                              [D.windows[k] EXCEPT !.minimized = TRUE]],
              !.sleeping = TRUE]

(* "power dialog actions" (lines 1028-1046), reached with power_open *)
PowerDialog(D, e) ==
    IF ~(e.type = "down" /\ e.button = 1) THEN Result(D, FALSE)
    ELSE IF ~power_rect THEN Result(Raise(D), TRUE)   \* self.power_rect: AttributeError
    ELSE LET i == FirstHit(PowerCmdRects, e.pos)
         IN  IF i = 0 THEN Result(D, FALSE)
             ELSE LET D1 == [D EXCEPT !.power_open = FALSE]
                      cmd == PowerCmds[i]
                  IN  IF cmd = "shutdown"
                      THEN Result(Did([D1 EXCEPT !.status = "exited"], cmd), TRUE)
                      ELSE IF cmd = "restart" THEN Result(Did(Restart(D1), cmd), TRUE)
                      ELSE IF cmd = "sleep" THEN Result(Did(Sleep(D1), cmd), TRUE)
                      ELSE Result(Did(D1, cmd), TRUE)

(* one call of Window.handle_event on the i-th window of the z-order *)
Deliver(D, i, e) ==
    LET r == WindowHandleEvent(D.windows[i], e, D.screen)
    IN  IF r.crash THEN Raise(D)
        ELSE [D EXCEPT !.windows[i] = r.win,
                       !.appEvents = IF r.app THEN Append(D.appEvents, r.win.z)
                                      ELSE D.appEvents]

(* "forward to focused window" (lines 1047-1051) *)
ForwardFocused(D, e) ==
    LET i == TopmostAt(D.windows, e.mouse)
    IN  IF i = 0 THEN D ELSE Deliver(D, i, e)

(* global keys whose Alt+Tab passes over a minimized bottom window *)
GlobalKeys_skipminimized(D, e) ==
    IF e.type # "keydown" THEN D
    ELSE LET D1 == IF e.key = "esc" /\ D.start_open
                   THEN Did([D EXCEPT !.start_open = FALSE], "esc") ELSE D
         IN  IF e.key = "alttab" /\ D1.windows # <<>> /\ ~Head(D1.windows).minimized
             THEN Did([D1 EXCEPT !.windows = Append(Tail(D1.windows), Head(D1.windows))],
                      "alttab")
             ELSE D1

(* global keys whose Alt+Tab drops the bottom window instead of raising it *)
GlobalKeys_drophead(D, e) ==
    IF e.type # "keydown" THEN D
    ELSE LET D1 == IF e.key = "esc" /\ D.start_open
                   THEN Did([D EXCEPT !.start_open = FALSE], "esc") ELSE D
         IN  IF e.key = "alttab" /\ D1.windows # <<>>
             THEN Did([D1 EXCEPT !.windows = Tail(D1.windows)], "alttab")
             ELSE D1

(* "global keys" (lines 1052-1058) *)
GlobalKeys(D, e) ==
    IF e.type # "keydown" THEN D
    ELSE LET D1 == IF e.key = "esc" /\ D.start_open
                   THEN Did([D EXCEPT !.start_open = FALSE], "esc") ELSE D
         IN  IF e.key = "alttab" /\ D1.windows # <<>>
             THEN Did([D1 EXCEPT !.windows = Append(Tail(D1.windows), Head(D1.windows))],
                      "alttab")
             ELSE D1

(* Desktop.handle_event: the stages after the button-1 chain *)
Returned(r) == r.ret \/ ~Alive(r.d)
ThenPower(r, e) ==
    IF Returned(r) \/ ~r.d.power_open THEN r ELSE PowerDialog(r.d, e)
ThenKeys(D, e) == IF ~Alive(D) THEN D ELSE GlobalKeys(D, e)
ThenForward(r, e) ==
    IF Returned(r) THEN r.d ELSE ThenKeys(ForwardFocused(r.d, e), e)

(* Desktop.handle_event *)
DesktopHandleEvent(D, e) ==
    IF D.sleeping
    THEN IF e.type \in {"down", "keydown"}
         THEN Did([D EXCEPT !.sleeping = FALSE], "wake") ELSE D
    ELSE ThenForward(ThenPower(IF e.type = "down" /\ e.button = 1
                               THEN ClickChain(D, e.mouse) ELSE Result(D, FALSE), e), e)

(* ---------- main event loop (lines 1105-1129) ---------- *)
(* a loop body whose button-1 release leaves the icons dragging *)
IconDrag_norelease(D, e) ==
    IF e.type = "move"
    THEN [D EXCEPT !.icons = [k \in 1..Len(D.icons) |->
                                 IF D.icons[k].dragging
                                 THEN [D.icons[k] EXCEPT !.x = e.pos[1] - D.icons[k].offx,
                                                         !.y = e.pos[2] - D.icons[k].offy]
                                 ELSE D.icons[k]]]
    ELSE D

(* the icon-drag bookkeeping of the loop body *)
IconDrag(D, e) ==
    IF e.type = "up" /\ e.button = 1
    THEN [D EXCEPT !.icons = [k \in 1..Len(D.icons) |->
                                 [D.icons[k] EXCEPT !.dragging = FALSE]]]
    ELSE IF e.type = "move"
    THEN [D EXCEPT !.icons = [k \in 1..Len(D.icons) |->
                                 IF D.icons[k].dragging
                                 THEN [D.icons[k] EXCEPT !.x = e.pos[1] - D.icons[k].offx,
                                                         !.y = e.pos[2] - D.icons[k].offy]
                                 ELSE D.icons[k]]]
    ELSE D

(* "Forward event to windows individually": every window of the list, in  *)
(* list order, up to the first call that raises                            *)
Broadcast(D, e) ==
    LET n == Len(D.windows)
        r == [i \in 1..n |-> WindowHandleEvent(D.windows[i], e, D.screen)]
        raised == {i \in 1..n : r[i].crash}
        stop == IF raised = {} THEN n + 1
                ELSE CHOOSE i \in raised : \A j \in raised : i <= j
        seen(z) == z # -1
        called == SelectSeq([i \in 1..n |-> IF i < stop /\ r[i].app
                                            THEN D.windows[i].z ELSE -1], seen)
    IN  IF ~Alive(D) THEN D
        ELSE [D EXCEPT !.windows = [i \in 1..n |-> IF i < stop THEN r[i].win
                                                   ELSE D.windows[i]],
                       !.appEvents = D.appEvents \o called,
                       !.status = IF stop <= n THEN "crashed" ELSE D.status]

(* the body of "for ev in pygame.event.get()" for one event *)
ThenIconDrag(D, e) == IF Alive(D) THEN IconDrag(D, e) ELSE D
MainLoopBody(D, e) ==
    Broadcast(IF e.type = "quit" THEN [D EXCEPT !.status = "quit"]
              ELSE IF e.type = "resize" THEN [D EXCEPT !.screen = e.size]
              ELSE ThenIconDrag(DesktopHandleEvent(D, e), e), e)

(* ---------- Desktop.draw (lines 953-963) ---------- *)
(* Window.draw leaves _btns behind on every window that is not minimized *)
DrawWindow(win) ==
    IF win.minimized THEN win
    ELSE [win EXCEPT !.btns = TRUE, !.br = win.x + win.w, !.bt = win.y]
(* draw_taskbar *)
StartBtn(scr) == Rect(8, scr[2] - TASKBAR_H + 6, 120, TASKBAR_H - 12)
TaskButtons(ws, scr) ==
    [i \in 1..Len(ws) |->
        [rect |-> Rect(8 + 120 + 8 + (i - 1) * (160 + 6), scr[2] - TASKBAR_H + 6,
                       160, TASKBAR_H - 8),
         z |-> ws[i].z]]
(* draw_start_menu: menu_rect.bottomleft = (10, h - TASKBAR_H - 6) *)
MenuRectAt(scr) == [x |-> 10, y |-> scr[2] - TASKBAR_H - 6 - 340]

(* history of the maximize toggle: n toggles in a row (no other event in    *)
(* between) were applied to window z, whose frame and maximized flag before *)
(* the first of them were frame and maximized                               *)
NoToggle == [z |-> -1, n |-> 0, frame |-> NoRect, maximized |-> FALSE]
Toggled(D) ==
    IF "max" \in Range(D.did) /\ D.status \in {"run", "quit"}
    THEN LET z == Last(D.windows).z
             before == windows[IndexOf(windows, z)]
         IN  IF toggle.z = z /\ toggle.n = 1
             THEN [toggle EXCEPT !.n = 2]
             ELSE [z |-> z, n |-> 1, frame |-> Frame(before),
                   maximized |-> before.maximized]
    ELSE NoToggle

(* ---------- initial state: Desktop.__init__, before the first event ---------- *)
Init ==
    /\ windows = <<NewWindow("Notes", Rect(180, 120, Max(MIN_W, WelcomeSize[1]),
                                           Max(MIN_H, WelcomeSize[2])), 0)>>
    /\ icons = InitIcons
    /\ start_open = FALSE
    /\ power_open = FALSE
    /\ sleeping = FALSE
    /\ start_btn = NoRect
    /\ task_buttons = <<>>
    /\ menu_rect = [x |-> 8, y |-> H - 340 - TASKBAR_H]
    /\ menu_items = FALSE
    /\ power_rect = FALSE
    /\ screen = <<W, H>>
    /\ seq = 1
    /\ status = "run"
    /\ ev = NoEvent
    /\ appEvents = <<>>
    /\ did = <<>>
    /\ toggle = NoToggle
    /\ recency = <<0>>
    /\ nev = 0

(* ---------- steps ---------- *)
Commit(D) ==
    /\ windows' = D.windows
    /\ icons' = D.icons
    /\ start_open' = D.start_open
    /\ power_open' = D.power_open
    /\ sleeping' = D.sleeping
    /\ screen' = D.screen
    /\ seq' = D.seq
    /\ status' = D.status
    /\ appEvents' = D.appEvents
    /\ did' = D.did
    /\ recency' = D.recency
    /\ toggle' = Toggled(D)

(* the main loop takes event e from the stream and runs its body on it; *)
(* max bounds the length of the stream                                   *)
Step(e, max) ==
    /\ status \in {"run", "quit"}
    /\ nev < max
    /\ Commit(MainLoopBody(Cur, e))
    /\ ev' = e
    /\ nev' = nev + 1
    /\ UNCHANGED <<start_btn, task_buttons, menu_rect, menu_items, power_rect>>

(* An input stream In: the pointer positions its events carry (points), the *)
(* positions the cursor may have moved on to by the time an event is        *)
(* handled (lag), the cursor positions during key events (cursor), the      *)
(* sizes the display is resized to (sizes), the mouse buttons and keys in   *)
(* use (buttons, keys), and its length (max).                              *)
Buttons == {1, 3}
Keys == {"esc", "alttab", "a"}

PointerDown(In) ==
    /\ nev < In.max
    /\ \E pos \in In.points, b \in In.buttons : \E m \in {pos} \cup In.lag :
          Step(Event("down", pos, b, "", <<0, 0>>, m), In.max)
PointerUp(In) ==
    /\ nev < In.max
    /\ \E pos \in In.points, b \in In.buttons : \E m \in {pos} \cup In.lag :
          Step(Event("up", pos, b, "", <<0, 0>>, m), In.max)
PointerMove(In) ==
    /\ nev < In.max
    /\ \E pos \in In.points : \E m \in {pos} \cup In.lag :
          Step(Event("move", pos, 0, "", <<0, 0>>, m), In.max)
KeyDown(In) ==
    /\ nev < In.max
    /\ \E k \in In.keys, m \in In.cursor :
          Step(Event("keydown", <<0, 0>>, 0, k, <<0, 0>>, m), In.max)
KeyUp(In) ==
    /\ nev < In.max
    /\ \E k \in In.keys, m \in In.cursor :
          Step(Event("keyup", <<0, 0>>, 0, k, <<0, 0>>, m), In.max)
VideoResize(In) ==
    /\ nev < In.max
    /\ \E sz \in In.sizes :
          Step(Event("resize", <<0, 0>>, 0, "", sz, <<0, 0>>), In.max)
Quit(In) ==
    /\ nev < In.max
    /\ Step(Event("quit", <<0, 0>>, 0, "", <<0, 0>>, <<0, 0>>), In.max)

(* desktop.draw(screen) at the end of an iteration of the main loop *)
Draw ==
    /\ status \in {"run", "quit"}
    /\ status' = IF status = "quit" THEN "exited" ELSE status
    /\ IF sleeping
       THEN UNCHANGED <<windows, start_btn, task_buttons, menu_rect, menu_items,
                        power_rect>>
       ELSE /\ windows' = [i \in 1..Len(windows) |-> DrawWindow(windows[i])]
            /\ start_btn' = StartBtn(screen)
            /\ task_buttons' = TaskButtons(windows, screen)
            /\ menu_rect' = IF start_open THEN MenuRectAt(screen) ELSE menu_rect
            /\ menu_items' = (menu_items \/ start_open)
            /\ power_rect' = (power_rect \/ power_open)
    /\ ev' = NoEvent
    /\ appEvents' = <<>>
    /\ did' = <<>>
    /\ UNCHANGED <<icons, start_open, power_open, sleeping, screen, seq, recency, nev,
                   toggle>>

(* wall-clock time passes: every icon's last click gets older *)
Older(ico) == IF ico.age = -1 THEN ico
              ELSE [ico EXCEPT !.age = Min(ico.age + TickMs, DOUBLE_CLICK_MS)]
Tick ==
    /\ status \in {"run", "quit"}
    /\ \E k \in 1..Len(icons) : Older(icons[k]) # icons[k]
    /\ icons' = [k \in 1..Len(icons) |-> Older(icons[k])]
    /\ ev' = NoEvent
    /\ appEvents' = <<>>
    /\ did' = <<>>
    /\ UNCHANGED <<windows, start_open, power_open, sleeping, start_btn, task_buttons,
                   menu_rect, menu_items, power_rect, screen, seq, status, recency, nev,
                   toggle>>

(* ---------- the desktop under an input stream ---------- *)
(* pointer positions (with the welcome window where Desktop.__init__ puts it) *)
PtTitle == <<200, 130>>      \* its title bar, left of the buttons
PtMax == <<670, 130>>        \* its maximize button
PtMaxFull == <<1220, 20>>    \* the maximize button of a maximized window
PtFarLeft == <<-530, 125>>   \* left of the screen
PtStart == <<30, 700>>       \* the start button
PtGrip == <<714, 539>>       \* its resize grip
PtGripLow == <<905, 660>>    \* the grip once it is 220 by 140 and dragged by PtTitle to PtGrip
PtPower == <<100, 646>>      \* the start menu's power button, below the last item row
PtPowerMid == <<100, 620>>   \* the power button where the sixth item row overlaps it
PtRestart == <<600, 350>>    \* the power dialog's Restart
PtSleep == <<700, 350>>      \* the power dialog's Sleep
PtIcon == <<40, 40>>         \* the Notes icon
PtLow == <<300, 510>>        \* inside it, below a second window cascaded over it
PtCloseTop == <<690, 140>>   \* the close button of that second window, on its title bar
PtTask1 == <<200, 700>>      \* the first taskbar button
PtTask2 == <<350, 700>>      \* the second taskbar button
PtIcon2 == <<130, 40>>       \* the Sketch icon
PtDrop == <<210, 140>>       \* the title bar of the welcome window and of a second one
PtCorner == <<780, 654>>     \* where a drag by PtTitle puts the frame at (760,644)
PtMaxCorner == <<1260, 660>> \* the maximize button drawn there, and the grip of a maximized window
PtTitleFull == <<200, 20>>   \* the title bar of a maximized window
PtMinUnder == <<650, 128>>   \* the welcome window's minimize button, clear of a second window
PtCloseBoth == <<700, 140>>  \* the close buttons of the welcome window and of a second one
ScreenSizes == {<<W, H>>, <<800, 600>>}

PointerNext(In) ==
    \/ PointerDown(In)
    \/ PointerUp(In)
    \/ PointerMove(In)
    \/ Draw

DesktopNext(In) ==
    \/ PointerDown(In)
    \/ PointerUp(In)
    \/ PointerMove(In)
    \/ KeyDown(In)
    \/ KeyUp(In)
    \/ VideoResize(In)
    \/ Quit(In)
    \/ Draw
    \/ Tick

(* direct calls of the Desktop methods on an open window *)
Call(D) ==
    /\ status = "run"
    /\ nev < MaxCalls
    /\ Commit(D)
    /\ ev' = NoEvent
    /\ nev' = nev + 1
    /\ UNCHANGED <<start_btn, task_buttons, menu_rect, menu_items, power_rect>>
CallFocus == \E z \in Ids(windows) : Call(focus(Cur, z))
CallClose == \E z \in Ids(windows) : Call(close(Cur, z))
CallSpawn ==
    /\ nev < MaxCalls
    /\ \E name \in {"Notes", "Sketch"} : Call(spawn_window(Cur, name, DefaultSize))
NextCalls == CallFocus \/ CallClose \/ CallSpawn
SpecCalls == Init /\ [][NextCalls]_vars

(* the same calls, and spawn_window called with a name that APP_MAP lacks *)
UnknownNames == {"Terminal"}
CallSpawnUnknown ==
    /\ nev < MaxCalls
    /\ \E name \in UnknownNames :
          Call(Did(spawn_window(Cur, name, DefaultSize), "spawn_unknown"))
NextSpawn == CallFocus \/ CallClose \/ CallSpawn \/ CallSpawnUnknown
SpecSpawn == Init /\ [][NextSpawn]_vars

(* the whole loop: start menu, power dialog, icons, keys, display resize *)
Stream == [points |-> {PtStart, PtPower, PtRestart, PtSleep, PtIcon},
           lag |-> {}, cursor |-> {PtRestart, PtStart}, sizes |-> ScreenSizes,
           buttons |-> Buttons, keys |-> Keys, max |-> MaxEvents]
Next == DesktopNext(Stream)
Spec == Init /\ [][Next]_vars

(* the power dialog under button-1 input on a display of fixed size *)
PowerStream == [points |-> {PtStart, PtPower, PtRestart, PtSleep, PtIcon},
                lag |-> {}, cursor |-> {PtRestart}, sizes |-> {<<W, H>>},
                buttons |-> {1}, keys |-> {"a", "alttab"}, max |-> MaxPowerEvents]
NextPower == DesktopNext(PowerStream)
SpecPower == Init /\ [][NextPower]_vars

(* pointer input only: drag and resize of the welcome window *)
DragStream == [points |-> {PtTitle, PtStart, PtGrip, PtGripLow}, lag |-> {},
               cursor |-> {}, sizes |-> {}, buttons |-> {1}, keys |-> {},
               max |-> MaxDragEvents]
NextPointer == PointerNext(DragStream)
SpecPointer == Init /\ [][NextPointer]_vars

(* pointer input only: the maximize button *)
MaxStream == [points |-> {PtTitle, PtMax, PtMaxFull, PtFarLeft}, lag |-> {PtTitle},
              cursor |-> {}, sizes |-> {}, buttons |-> Buttons, keys |-> {},
              max |-> MaxToggleEvents]
NextMaximize == PointerNext(MaxStream)
SpecMaximize == Init /\ [][NextMaximize]_vars

(* button-1 clicks only *)
ClickNext(In) ==
    \/ PointerDown(In)
    \/ Draw

(* clicks on the Notes icon and on the first two taskbar buttons *)
TaskStream == [points |-> {PtIcon, PtTask1, PtTask2}, lag |-> {},
               cursor |-> {}, sizes |-> {}, buttons |-> {1}, keys |-> {},
               max |-> MaxTaskEvents]
NextTaskbar == ClickNext(TaskStream)
SpecTaskbar == Init /\ [][NextTaskbar]_vars

(* clicks on the Notes icon, on the welcome window and on a window spawned over it *)
FocusStream == [points |-> {PtIcon, PtTitle, PtLow, PtCloseTop}, lag |-> {},
                cursor |-> {}, sizes |-> {}, buttons |-> {1}, keys |-> {},
                max |-> MaxFocusEvents]
NextFocus == ClickNext(FocusStream)
SpecFocus == Init /\ [][NextFocus]_vars

(* pointer and key input, display of fixed size *)
InputNext(In) ==
    \/ PointerDown(In)
    \/ PointerUp(In)
    \/ PointerMove(In)
    \/ KeyDown(In)
    \/ KeyUp(In)
    \/ Draw

(* the welcome window grabbed by its title bar, minimized by its taskbar *)
(* button, and the way to Restart                                        *)
MinStream == [points |-> {PtTitle, PtTask1, PtStart, PtPower, PtRestart}, lag |-> {},
              cursor |-> {PtTitle}, sizes |-> {}, buttons |-> {1},
              keys |-> {"a", "alttab"}, max |-> MaxMinEvents]
NextMinimized == InputNext(MinStream)
SpecMinimized == Init /\ [][NextMinimized]_vars

(* pointer input on two desktop icons, with time passing *)
TimedPointerNext(In) ==
    \/ PointerDown(In)
    \/ PointerUp(In)
    \/ PointerMove(In)
    \/ Draw
    \/ Tick
IconStream == [points |-> {PtIcon, PtIcon2}, lag |-> {},
               cursor |-> {}, sizes |-> {}, buttons |-> {1}, keys |-> {},
               max |-> MaxIconEvents]
NextIcons == TimedPointerNext(IconStream)
SpecIcons == Init /\ [][NextIcons]_vars

(* clicks on the start button, in and around the start menu *)
MenuStream == [points |-> {PtStart, PtPower, PtPowerMid, PtIcon, PtTitle}, lag |-> {},
               cursor |-> {}, sizes |-> {}, buttons |-> {1}, keys |-> {},
               max |-> MaxMenuEvents]
NextMenu == ClickNext(MenuStream)
SpecMenu == Init /\ [][NextMenu]_vars

(* clicks on the title bars and title buttons of two overlapping windows *)
ChromeStream == [points |-> {PtIcon, PtTitle, PtMax, PtCloseBoth}, lag |-> {},
                 cursor |-> {}, sizes |-> {}, buttons |-> {1}, keys |-> {},
                 max |-> MaxChromeEvents]
NextChrome == ClickNext(ChromeStream)
SpecChrome == Init /\ [][NextChrome]_vars

(* the Notes icon dragged to where the title bar of the next window will be *)
DropStream == [points |-> {PtIcon, PtDrop}, lag |-> {},
               cursor |-> {}, sizes |-> {}, buttons |-> {1}, keys |-> {},
               max |-> MaxDropEvents]
NextIconDrop == TimedPointerNext(DropStream)
SpecIconDrop == Init /\ [][NextIconDrop]_vars

(* the welcome window dragged to the bottom right corner and maximized there *)
CornerStream == [points |-> {PtTitle, PtCorner, PtMaxCorner}, lag |-> {},
                 cursor |-> {}, sizes |-> {}, buttons |-> {1}, keys |-> {},
                 max |-> MaxCornerEvents]
NextCorner == PointerNext(CornerStream)
SpecCorner == Init /\ [][NextCorner]_vars

(* every way the desktop has of acting on its windows: icon, title bar,   *)
(* title buttons, grip, taskbar button, start menu, power dialog, keys    *)
LifeStream == [points |-> {PtIcon, PtTitle, PtMax, PtCloseBoth, PtGrip, PtTask1,
                           PtStart, PtPower, PtRestart, PtSleep},
               lag |-> {}, cursor |-> {PtTitle}, sizes |-> {}, buttons |-> {1},
               keys |-> {"esc", "alttab"}, max |-> MaxLifeEvents]
LifeMoves == [LifeStream EXCEPT !.points = {PtGrip}]
NextLifetime ==
    \/ PointerDown(LifeStream)
    \/ PointerUp(LifeMoves)
    \/ PointerMove(LifeMoves)
    \/ KeyDown(LifeStream)
    \/ Draw
SpecLifetime == Init /\ [][NextLifetime]_vars

(* the welcome window maximized, dragged, minimized and restored by its *)
(* taskbar button                                                       *)
RestoreStream == [points |-> {PtTitle, PtTitleFull, PtMax, PtMaxFull, PtTask1},
                  lag |-> {}, cursor |-> {}, sizes |-> {}, buttons |-> {1},
                  keys |-> {}, max |-> MaxRestoreEvents]
RestoreMoves == [RestoreStream EXCEPT !.points = {PtGrip}]
NextRestore ==
    \/ PointerDown(RestoreStream)
    \/ PointerUp(RestoreMoves)
    \/ PointerMove(RestoreMoves)
    \/ Draw
SpecRestore == Init /\ [][NextRestore]_vars

(* Alt+Tab with no window, one window or two, minimized or not *)
AltTabStream == [points |-> {PtIcon, PtMinUnder, PtCloseBoth, PtTask1}, lag |-> {},
                 cursor |-> {PtTitle, PtStart}, sizes |-> {}, buttons |-> {1},
                 keys |-> {"alttab", "a"}, max |-> MaxAltTabEvents]
NextAltTab ==
    \/ PointerDown(AltTabStream)
    \/ KeyDown(AltTabStream)
    \/ Draw
SpecAltTab == Init /\ [][NextAltTab]_vars

(* ====================== properties ====================== *)
IsStep == nev' = nev + 1
IsButton1Down(e) == e.type = "down" /\ e.button = 1
Hosts(ws, z) == ws[IndexOf(ws, z)]
(* what the three title buttons and the pointer can change of a window *)
Lifecycle(win) == <<win.minimized, win.maximized>>
Interaction(win) == <<win.dragging, win.resizing, win.offx, win.offy>>
WelcomeFrame == Rect(180, 120, 540, 420)

(* C1: after any sequence of focus, spawn_window and close calls on open    *)
(* windows, the z-order holds exactly the open windows, each once, and the  *)
(* most recently focused or spawned open window that is not minimized is    *)
(* its last element.                                                        *)
C1_ZOrderHoldsOpenWindows ==
    /\ Ids(windows) = Range(recency)
    /\ Cardinality(Ids(windows)) = Len(windows)
    /\ LET shown(z) == ~Hosts(windows, z).minimized
           latest == SelectSeq(recency, shown)
       IN  latest # <<>> => Last(windows).z = Last(latest)
(* three windows open after one was closed, an older one focused again *)
C1_Witness ==
    /\ Len(windows) >= 3
    /\ seq > Len(windows)
    /\ \E i \in 1..(Len(windows) - 1) : windows[i].z > Last(windows).z

(* C2: a button-1 pointer-down at a point inside the drawn start button and *)
(* inside the frame of a window that is not minimized toggles the start     *)
(* menu, and that window is left as it was and its App is not called.       *)
C2_StartButtonClaimsTheClick ==
    [][(/\ IsStep
        /\ IsButton1Down(ev') /\ ev'.mouse = ev'.pos
        /\ ~sleeping /\ start_btn # NoRect /\ Collide(start_btn, ev'.pos))
       => /\ start_open' = ~start_open
          /\ \A i \in 1..Len(windows) :
                (~windows[i].minimized /\ Collide(Frame(windows[i]), ev'.pos))
                => /\ Len(windows') = Len(windows)
                   /\ windows'[i] = windows[i]
                   /\ windows[i].z \notin Range(appEvents')]_vars

(* C3: in every state reached by pointer-down, pointer-move and pointer-up  *)
(* events, every window's frame is at least MIN_W wide and MIN_H high and   *)
(* lies within the bounds a drag is clamped to.                             *)
C3_FrameAtLeastMinimumSize ==
    \A i \in 1..Len(windows) :
        /\ windows[i].w >= MIN_W
        /\ windows[i].h >= MIN_H
        /\ -windows[i].w + 60 <= windows[i].x /\ windows[i].x <= screen[1] - 60
        /\ 0 <= windows[i].y /\ windows[i].y <= screen[2] - TASKBAR_H - TITLEBAR_H

(* C4, as claimed: for any window, two maximize toggles in a row (no other  *)
(* event in between) restore the frame and the maximized flag it had before *)
(* the first.                                                               *)
C4_ToggleTwiceRestoresAnyWindow ==
    toggle.n = 2 =>
        /\ Frame(Hosts(windows, toggle.z)) = toggle.frame
        /\ Hosts(windows, toggle.z).maximized = toggle.maximized
(* C4, amended: for any window that is not maximized, two maximize toggles  *)
(* in a row restore the frame it had before the first and leave it not      *)
(* maximized.                                                               *)
C4_ToggleTwiceRestoresNormalWindow ==
    (toggle.n = 2 /\ ~toggle.maximized) =>
        /\ Frame(Hosts(windows, toggle.z)) = toggle.frame
        /\ ~Hosts(windows, toggle.z).maximized
(* the welcome window was maximized and then restored by its own button *)
C4_Witness ==
    /\ toggle.n = 2 /\ ~toggle.maximized
    /\ ev.pos = PtMaxFull
    /\ "max" \in Range(did)

(* C5: a button-1 pointer-down that reaches the window layer (no start      *)
(* button, start menu, icon or taskbar button claims it; no power dialog)   *)
(* goes only to the topmost window under the pointer that is not minimized: *)
(* every other window keeps its frame and interaction state and its App is  *)
(* not called.                                                              *)
ReachesWindows(D, p) ==
    ~ThenTaskbar(ThenIcons(ThenMenu(ClickStart(D, p), p), p), p).ret
C5_OnlyTopmostWindowGetsTheClick ==
    [][(/\ IsStep
        /\ IsButton1Down(ev') /\ ev'.mouse = ev'.pos
        /\ ~sleeping /\ ~power_open /\ status = "run" /\ status' = "run"
        /\ ReachesWindows(Cur, ev'.pos))
       => \A i \in 1..Len(windows) :
            i # TopmostAt(windows, ev'.pos)
            => /\ windows[i].z \notin Range(appEvents')
               /\ windows[i].z \in Ids(windows')
               /\ Frame(Hosts(windows', windows[i].z)) = Frame(windows[i])
               /\ Interaction(Hosts(windows', windows[i].z)) = Interaction(windows[i])]_vars

(* C6: a KeyDown or KeyUp goes to the focused window only: no App but that  *)
(* of the z-order's tail is called for it.                                  *)
C6_KeysGoToFocusedWindowOnly ==
    [][(IsStep /\ ev'.type \in {"keydown", "keyup"})
       => \A z \in Range(appEvents') : windows # <<>> /\ z = Last(windows).z]_vars

(* C7: while the power dialog is open and the desktop is awake, a button-1  *)
(* pointer-down that does not select Restart or Sleep leaves the start      *)
(* menu, the icons' drag state, the z-order and every window's minimized    *)
(* and maximized flag as they were.                                         *)
C7_PowerDialogHasPrecedence ==
    [][(/\ IsStep
        /\ IsButton1Down(ev') /\ ev'.mouse = ev'.pos
        /\ power_open /\ power_rect /\ ~sleeping
        /\ FirstHit(PowerCmdRects, ev'.pos) \notin {2, 3})
       => /\ start_open' = start_open
          /\ \A k \in 1..Len(icons) : icons'[k].dragging = icons[k].dragging
          /\ [i \in 1..Len(windows') |-> windows'[i].z]
                = [i \in 1..Len(windows) |-> windows[i].z]
          /\ \A i \in 1..Len(windows) :
                Lifecycle(windows'[i]) = Lifecycle(windows[i])]_vars

(* C8: while the desktop sleeps, a PointerDown or KeyDown only sets          *)
(* sleeping to false, and a PointerMove, PointerUp or KeyUp changes nothing: *)
(* z-order, windows, start menu and power dialog flags and icons stay.       *)
C8_SleepingIgnoresInput ==
    [][(/\ IsStep
        /\ sleeping
        /\ ev'.type \in {"down", "keydown", "move", "up", "keyup"})
       => /\ sleeping' = (ev'.type \notin {"down", "keydown"})
          /\ UNCHANGED <<windows, icons, start_open, power_open>>]_vars

(* C9: whenever the desktop is sleeping, every window of the z-order is     *)
(* minimized and the power dialog is closed.                                *)
C9_SleepingMeansAllMinimized ==
    sleeping => /\ ~power_open
                /\ \A i \in 1..Len(windows) : windows[i].minimized
(* Sleep was selected with two windows open *)
C9_Witness ==
    /\ sleeping
    /\ Len(windows) >= 2
    /\ "sleep" \in Range(did)

(* C10: when Restart is selected in the power dialog, the dialog is closed  *)
(* and the z-order holds exactly one window: a new Notes window with a      *)
(* fresh id, not minimized, not maximized, idle, at (180,120), 540 by 420.  *)
C10_RestartRespawnsWelcomeWindow ==
    [][("restart" \in Range(did'))
       => /\ ~power_open'
          /\ Len(windows') = 1
          /\ windows'[1].app = "Notes"
          /\ windows'[1].z = seq /\ windows'[1].z \notin Ids(windows)
          /\ Lifecycle(windows'[1]) = <<FALSE, FALSE>>
          /\ ~windows'[1].dragging /\ ~windows'[1].resizing
          /\ Frame(windows'[1]) = WelcomeFrame]_vars
(* Restart was selected with two windows open *)
C10_Witness ==
    /\ "restart" \in Range(did)
    /\ Len(windows) = 1
    /\ windows[1].z >= 2
    /\ ~power_open

(* a window list as the lifecycle claims see it: ids in z-order, each with *)
(* its minimized and maximized flags and its frame                        *)
View(ws) == [k \in 1..Len(ws) |-> <<ws[k].z, Lifecycle(ws[k]), Frame(ws[k])>>]
ReachesTaskbar(D, p) == ~ThenIcons(ThenMenu(ClickStart(D, p), p), p).ret
ToTail(ws, i) == Append(RemoveAt(ws, i), ws[i])

(* C11: a button-1 pointer-down on the taskbar button of an open window     *)
(* (not claimed by the start button, the start menu or an icon) restores a  *)
(* minimized window and moves it to the tail; else minimizes it in place if *)
(* it is the tail; else moves it to the tail. No other window's minimized   *)
(* or maximized flag, frame or relative order changes.                      *)
C11_TaskbarButtonThreeWay ==
    [][(/\ IsStep
        /\ IsButton1Down(ev') /\ ev'.mouse = ev'.pos
        /\ ~sleeping
        /\ ReachesTaskbar(Cur, ev'.pos)
        /\ FirstHit([k \in 1..Len(task_buttons) |-> task_buttons[k].rect], ev'.pos) # 0
        /\ task_buttons[FirstHit([k \in 1..Len(task_buttons) |-> task_buttons[k].rect],
                                 ev'.pos)].z \in Ids(windows))
       => LET b == FirstHit([k \in 1..Len(task_buttons) |-> task_buttons[k].rect],
                            ev'.pos)
              i == IndexOf(windows, task_buttons[b].z)
          IN  View(windows') =
                IF windows[i].minimized
                THEN View(ToTail([windows EXCEPT ![i].minimized = FALSE], i))
                ELSE IF i = Len(windows)
                THEN View([windows EXCEPT ![i].minimized = TRUE])
                ELSE View(ToTail(windows, i))]_vars
(* with two windows open, a minimized one was restored by its taskbar button *)
C11_Witness ==
    /\ "task_restore" \in Range(did)
    /\ Len(windows) >= 2
    /\ ~Last(windows).minimized
    /\ ev.pos \in {PtTask1, PtTask2}

Zs(ws) == [k \in 1..Len(ws) |-> ws[k].z]
OnTitleButton(win, p) ==
    Collide(titlebar_rect(win), p) /\ win.btns /\ _hit_title_buttons(win, p) # "none"

(* C12: a button-1 pointer-down that no start button, start menu, icon or   *)
(* taskbar button claims and that lands in the frame of a non-minimized     *)
(* window, not on a title-bar button, moves the topmost such window to the  *)
(* z-order tail and keeps the relative order of all other windows.          *)
C12_ClickRaisesTopmostWindow ==
    [][(/\ IsStep
        /\ IsButton1Down(ev') /\ ev'.mouse = ev'.pos
        /\ ~sleeping
        /\ ReachesWindows(Cur, ev'.pos)
        /\ TopmostAt(windows, ev'.pos) # 0
        /\ ~OnTitleButton(windows[TopmostAt(windows, ev'.pos)], ev'.pos))
       => Zs(windows') = Zs(ToTail(windows, TopmostAt(windows, ev'.pos)))]_vars

(* C13: a button-1 pointer-down on the close button of the topmost          *)
(* non-minimized window under the pointer removes exactly that window (the  *)
(* others keep their order and state), and neither that pointer-down nor    *)
(* any later event reaches the closed window's App.                         *)
C13_CloseRemovesExactlyThatWindow ==
    /\ [][(/\ IsStep
           /\ IsButton1Down(ev') /\ ev'.mouse = ev'.pos
           /\ ~sleeping
           /\ ReachesWindows(Cur, ev'.pos)
           /\ TopmostAt(windows, ev'.pos) # 0
           /\ OnTitleButton(windows[TopmostAt(windows, ev'.pos)], ev'.pos)
           /\ _hit_title_buttons(windows[TopmostAt(windows, ev'.pos)], ev'.pos) = "x")
          => /\ windows' = RemoveAt(windows, TopmostAt(windows, ev'.pos))
             /\ windows[TopmostAt(windows, ev'.pos)].z \notin Range(appEvents')]_vars
    /\ [](Range(appEvents) \subseteq Ids(windows))

(* a step that is desktop.draw(screen) with the desktop awake *)
IsDraw == nev' = nev /\ icons' = icons /\ ~sleeping
TaskIds(tb) == {tb[k].z : k \in 1..Len(tb)}
(* what an event or a draw leaves of window i, minimized before it and, if *)
(* still open, minimized after it                                         *)
StillMinimized(i) ==
    windows[i].z \in Ids(windows') => Hosts(windows', windows[i].z).minimized
StaysInert(i) ==
    /\ (IsStep /\ StillMinimized(i))
       => /\ windows[i].z \notin Range(appEvents')
          /\ windows[i].z \in Ids(windows')
             => /\ Frame(Hosts(windows', windows[i].z)) = Frame(windows[i])
                /\ Interaction(Hosts(windows', windows[i].z)) = Interaction(windows[i])
    /\ IsDraw => /\ windows[i].z \in TaskIds(task_buttons')
                 /\ windows'[i] = windows[i]

(* C14, as claimed: while a window is minimized it stays in the z-order and *)
(* has a taskbar button at every draw, its App is not called and not drawn, *)
(* and no event changes its frame or its interaction state.                 *)
C14_MinimizedWindowStaysAndIsInert ==
    [][\A i \in 1..Len(windows) :
         windows[i].minimized
         => /\ StaysInert(i)
            /\ IsStep => windows[i].z \in Ids(windows')]_vars
(* C14, amended: the same, except that Restart removes a minimized window   *)
(* from the z-order along with every other window.                          *)
C14_MinimizedWindowIsInertUntilRestart ==
    [][\A i \in 1..Len(windows) :
         windows[i].minimized
         => /\ StaysInert(i)
            /\ IsStep => (windows[i].z \in Ids(windows') \/ "restart" \in Range(did'))]_vars
(* a pointer move was processed while a window that was being dragged is minimized *)
C14_Witness ==
    /\ ev.type = "move"
    /\ ev.pos # PtTitle
    /\ \E i \in 1..Len(windows) : windows[i].minimized /\ windows[i].dragging

ReachesIcons(D, p) == ~ThenMenu(ClickStart(D, p), p).ret
IconAt(p) == FirstHit([k \in 1..Len(icons) |-> IconRect(icons[k])], p)

(* C15: a button-1 pointer-down on a desktop icon less than the double-click *)
(* interval after the previous pointer-down that began a drag of that icon   *)
(* spawns exactly one window, for that icon's app; at or beyond the interval *)
(* (or with no earlier click) it spawns no window and begins an icon drag.   *)
C15_DoubleClickSpawnsOnce ==
    [][(/\ IsStep
        /\ IsButton1Down(ev') /\ ev'.mouse = ev'.pos
        /\ ~sleeping
        /\ ReachesIcons(Cur, ev'.pos)
        /\ IconAt(ev'.pos) # 0)
       => LET ico == icons[IconAt(ev'.pos)]
          IN  IF ico.age # -1 /\ ico.age < DOUBLE_CLICK_MS
              THEN /\ Zs(windows') = Append(Zs(windows), seq)
                   /\ Last(windows').app = ico.name
              ELSE /\ Zs(windows') = Zs(windows)
                   /\ icons'[IconAt(ev'.pos)].dragging
                   /\ icons'[IconAt(ev'.pos)].age = 0]_vars
(* the Sketch icon was double-clicked after the Notes icon had been clicked *)
(* and left for the whole interval                                          *)
C15_Witness ==
    /\ "icon_spawn" \in Range(did)
    /\ Len(windows) = 2
    /\ Last(windows).app = "Sketch"
    /\ icons[1].age = DOUBLE_CLICK_MS

(* C16: with the start menu open, a button-1 pointer-down outside the menu  *)
(* rectangle and outside the start button closes the menu and does nothing  *)
(* else: no icon drag, no spawn, no taskbar action, no focus, close,        *)
(* minimize, maximize, drag or resize of any window.                        *)
C16_OutsideClickOnlyClosesMenu ==
    [][(/\ IsStep
        /\ IsButton1Down(ev') /\ ev'.mouse = ev'.pos
        /\ ~sleeping /\ start_open /\ start_btn # NoRect
        /\ ~Collide(MenuRect, ev'.pos)
        /\ ~Collide(start_btn, ev'.pos))
       => /\ ~start_open'
          /\ UNCHANGED <<windows, icons, power_open, sleeping>>]_vars

(* C17: with the start menu open, a button-1 pointer-down at any point of   *)
(* the start menu's power button opens the power dialog, closes the start   *)
(* menu and spawns no window.                                               *)
C17_PowerButtonOpensDialog ==
    [][(/\ IsStep
        /\ IsButton1Down(ev') /\ ev'.mouse = ev'.pos
        /\ ~sleeping /\ start_open /\ menu_items
        /\ ~Collide(start_btn, ev'.pos)
        /\ Collide(PowerBtn, ev'.pos))
       => /\ power_open'
          /\ ~start_open'
          /\ Zs(windows') = Zs(windows)]_vars

(* C18: spawn_window for a registered app name, called with n windows open, *)
(* appends exactly one new window: at (180 + 16n, 120 + 12n), 520 by 360,   *)
(* not minimized, not maximized, idle, hosting that app; the windows open   *)
(* before keep their order and state.                                       *)
C18_SpawnAppendsCascadedWindow ==
    [][(IsStep /\ seq' # seq)
       => /\ Len(windows') = Len(windows) + 1
          /\ SubSeq(windows', 1, Len(windows)) = windows
          /\ Frame(Last(windows')) = Rect(180 + 16 * Len(windows),
                                          120 + 12 * Len(windows), 520, 360)
          /\ 520 >= MIN_W /\ 360 >= MIN_H
          /\ Lifecycle(Last(windows')) = <<FALSE, FALSE>>
          /\ ~Last(windows').dragging /\ ~Last(windows').resizing
          /\ Last(windows').app \in Range(APP_MAP)
          /\ Last(windows').z \notin Ids(windows)]_vars
(* a Sketch window was spawned at the second cascade position after a close *)
C18_Witness ==
    /\ Len(windows) = 2
    /\ seq >= 3
    /\ Last(windows).z = seq - 1
    /\ Last(windows).app = "Sketch"
    /\ Frame(Last(windows)) = Rect(196, 132, 520, 360)

(* C19: no two windows of the z-order share an id, and every newly created *)
(* window gets an id greater than that of every window created before it,  *)
(* closed or cleared by Restart included.                                   *)
C19_IdsUniqueAndNeverReused ==
    /\ [](/\ Cardinality(Ids(windows)) = Len(windows)
          /\ \A z \in Ids(windows) : z < seq)
    /\ [][/\ seq' >= seq
          /\ \A z \in Ids(windows') \ Ids(windows) : seq <= z /\ z < seq']_vars
(* Restart with two windows open gave the new welcome window the third id *)
C19_Witness ==
    /\ "restart" \in Range(did)
    /\ Ids(windows) = {2}
    /\ seq = 3

Idle(win) == ~win.dragging /\ ~win.resizing

(* C20: after a button-1 PointerUp has been processed every open window is  *)
(* Idle, whatever the pointer position, the window's place in the z-order   *)
(* or its lifecycle state, and a PointerMove that finds every window Idle   *)
(* changes no window frame.                                                 *)
C20_PointerUpMakesEveryWindowIdle ==
    /\ [][(IsStep /\ ev'.type = "up" /\ ev'.button = 1)
          => \A i \in 1..Len(windows') : Idle(windows'[i])]_vars
    /\ [][(IsStep /\ ev'.type = "move" /\ \A i \in 1..Len(windows) : Idle(windows[i]))
          => View(windows') = View(windows)]_vars

(* ---------- drag and resize updates ---------- *)
(* the event just processed was a pointer move and window i was being dragged *)
DragUpdate(i) ==
    /\ IsStep /\ ev'.type = "move" /\ status' \in {"run", "quit"}
    /\ Len(windows') = Len(windows)
    /\ windows[i].dragging /\ ~windows[i].minimized
OnScreen(r, scr) ==
    /\ r.x < scr[1] /\ r.x + r.w > 0
    /\ r.y < scr[2] /\ r.y + r.h > 0

(* C21: after every pointer move that updates a drag, the dragged window's  *)
(* frame is not entirely off-screen and its bottom edge is not below the    *)
(* top edge of the taskbar.                                                 *)
C21_DragKeepsFrameAboveTaskbar ==
    [][\A i \in 1..Len(windows) :
          DragUpdate(i)
          => /\ OnScreen(Frame(windows'[i]), screen')
             /\ windows'[i].y + windows'[i].h <= screen'[2] - TASKBAR_H]_vars

(* C22: every event that the main loop hands to windows reaches the hosted  *)
(* App of each window that is not minimized, title-bar button or not.       *)
C22_EveryEventReachesTheApp ==
    [][(IsStep /\ status' \in {"run", "quit"})
       => \A i \in 1..Len(windows') :
             ~windows'[i].minimized => windows'[i].z \in Range(appEvents')]_vars

(* C23: no event makes the dispatch to an open window raise an error,       *)
(* whether or not the window has been drawn since it was spawned.           *)
C23_WindowDispatchNeverRaises ==
    [][IsStep
       => ~(/\ status' = "crashed"
            /\ \E i \in 1..Len(windows') :
                  WindowHandleEvent(windows'[i], ev', screen').crash)]_vars

(* C24: spawn_window called with a name that is not in the registry raises  *)
(* an error and leaves the desktop as it was: no window is added to the     *)
(* z-order and no window id is consumed.                                    *)
C24_UnknownAppFailsLoudly ==
    [][(IsStep /\ "spawn_unknown" \in Range(did'))
       => /\ status' = "crashed"
          /\ UNCHANGED <<windows, seq, recency, icons, start_open, power_open,
                         sleeping>>]_vars
(* the failed call came with three windows open and the next id above them *)
C24_Witness ==
    /\ status = "crashed"
    /\ "spawn_unknown" \in Range(did)
    /\ Len(windows) = 3
    /\ seq > 3

(* C25: a button-1 pointer-down that reaches the icons and is not the       *)
(* second of a double click starts a drag of the first listed icon under    *)
(* the pointer and of no other, recording the pointer-to-icon offset; a     *)
(* pointer move puts every dragging icon at the pointer minus its offset    *)
(* and leaves the others alone; after a button-1 pointer-up no icon is      *)
(* dragging; nothing but such a pointer-down starts an icon drag.           *)
C25_IconDragFollowsPointerUntilRelease ==
    [][IsStep
       => /\ (/\ IsButton1Down(ev') /\ ev'.mouse = ev'.pos /\ ~sleeping
              /\ ReachesIcons(Cur, ev'.pos) /\ IconAt(ev'.pos) # 0
              /\ ~(icons[IconAt(ev'.pos)].age # -1
                   /\ icons[IconAt(ev'.pos)].age < DOUBLE_CLICK_MS))
             => LET i == IconAt(ev'.pos)
                IN  icons' = [icons EXCEPT ![i].dragging = TRUE,
                                           ![i].offx = ev'.pos[1] - icons[i].x,
                                           ![i].offy = ev'.pos[2] - icons[i].y,
                                           ![i].age = 0]
          /\ ev'.type = "move"
             => \A k \in 1..Len(icons) :
                   icons'[k] = IF icons[k].dragging
                               THEN [icons[k] EXCEPT !.x = ev'.pos[1] - icons[k].offx,
                                                     !.y = ev'.pos[2] - icons[k].offy]
                               ELSE icons[k]
          /\ (ev'.type = "up" /\ ev'.button = 1)
             => \A k \in 1..Len(icons) : ~icons'[k].dragging
          /\ \A k \in 1..Len(icons) :
                (icons'[k].dragging /\ ~icons[k].dragging)
                => IsButton1Down(ev') /\ k = IconAt(ev'.mouse)]_vars
(* the Notes icon was dragged off its grid cell and released, and the       *)
(* pointer has moved again since                                            *)
C25_Witness ==
    /\ ev.type = "move"
    /\ <<icons[1].x, icons[1].y>> # <<InitIcons[1].x, InitIcons[1].y>>
    /\ \A k \in 1..Len(icons) : ~icons[k].dragging

(* C26: a button-1 pointer-down at a point of one of the three title-bar    *)
(* buttons of a window that is not minimized never makes that window start  *)
(* dragging or resizing.                                                    *)
C26_TitleButtonsNeverStartDragOrResize ==
    [][(IsStep /\ IsButton1Down(ev') /\ ev'.mouse = ev'.pos
        /\ status' \in {"run", "quit"})
       => \A i \in 1..Len(windows) :
             (/\ ~windows[i].minimized
              /\ windows[i].btns
              /\ \E k \in 0..2 : Collide(BtnRect(windows[i], k), ev'.pos)
              /\ windows[i].z \in Ids(windows'))
             => /\ Hosts(windows', windows[i].z).dragging => windows[i].dragging
                /\ Hosts(windows', windows[i].z).resizing => windows[i].resizing]_vars

(* the event just processed was a pointer move and window i was being resized *)
ResizeUpdate(i) ==
    /\ IsStep /\ ev'.type = "move" /\ status' \in {"run", "quit"}
    /\ Len(windows') = Len(windows)
    /\ windows[i].resizing /\ ~windows[i].minimized

(* C27: a pointer move that updates a resize leaves the frame's origin      *)
(* where it was and makes the size the pointer's distance from the origin,  *)
(* raised to the minimum size first and then cut to at most sw - x - 10 by  *)
(* sh - TASKBAR_H - y - 10.                                                 *)
C27_ResizeKeepsOriginAndScreenLimit ==
    [][\A i \in 1..Len(windows) :
          ResizeUpdate(i)
          => LET old == windows[i]
                 new == windows'[i]
             IN  /\ new.x = old.x /\ new.y = old.y
                 /\ new.w = Min(Max(MIN_W, ev'.pos[1] - old.x), screen[1] - old.x - 10)
                 /\ new.h = Min(Max(MIN_H, ev'.pos[2] - old.y),
                                screen[2] - TASKBAR_H - old.y - 10)
                 /\ new.x + new.w <= screen[1] - 10
                 /\ new.y + new.h <= screen[2] - TASKBAR_H - 10]_vars

(* C28: a pointer move that updates a drag leaves the frame's size as it    *)
(* was and puts its origin at -width + 60 <= x <= sw - 60 and               *)
(* 0 <= y <= sh - TASKBAR_H - TITLEBAR_H.                                   *)
C28_DragKeepsSizeAndClampsOrigin ==
    [][\A i \in 1..Len(windows) :
          DragUpdate(i)
          => LET old == windows[i]
                 new == windows'[i]
             IN  /\ new.w = old.w /\ new.h = old.h
                 /\ -new.w + 60 <= new.x /\ new.x <= screen[1] - 60
                 /\ 0 <= new.y /\ new.y <= screen[2] - TASKBAR_H - TITLEBAR_H]_vars

(* C29: for each raw event, the hosted App of each open window has its      *)
(* handle_event called at most once.                                        *)
C29_AppSeesEachEventAtMostOnce ==
    \A j, k \in 1..Len(appEvents) : appEvents[j] = appEvents[k] => j = k

(* C30: an event that spawns a window adds exactly one new window to the    *)
(* set of open windows, a click on a close button removes exactly one, and  *)
(* every event that is neither of these nor Restart leaves the set as it    *)
(* was.                                                                     *)
C30_OnlySpawnCloseRestartChangeTheWindows ==
    [][IsStep
       => IF "restart" \in Range(did') THEN TRUE
          ELSE IF \E t \in {"icon_spawn", "menu_spawn"} : t \in Range(did')
          THEN seq \notin Ids(windows) /\ Ids(windows') = Ids(windows) \cup {seq}
          ELSE IF "close" \in Range(did')
          THEN \E z \in Ids(windows) : Ids(windows') = Ids(windows) \ {z}
          ELSE Ids(windows') = Ids(windows)]_vars
(* Alt+Tab with two windows open, one of them spawned from its icon *)
C30_Witness ==
    /\ "alttab" \in Range(did)
    /\ Ids(windows) = {0, 1}
    /\ windows[1].z = 1

(* what minimizing and restoring must keep of a window *)
Kept(win) == <<Frame(win), win.maximized, PreMax(win)>>

(* C31: the step that minimizes a window, every step while it is minimized  *)
(* and the taskbar click that restores it leave its frame, its maximized    *)
(* flag and its pre-maximize snapshot as they were; maximizing saves the    *)
(* frame as the snapshot, which no step changes while the window is         *)
(* maximized, and the maximize toggle of a maximized window sets the frame  *)
(* to the snapshot.                                                         *)
C31_MinimizeRestoreKeepsFrameAndSnapshot ==
    [][(IsStep /\ status' \in {"run", "quit"})
       => /\ \A z \in Ids(windows) \cap Ids(windows') :
                LET old == Hosts(windows, z)
                    new == Hosts(windows', z)
                IN  /\ (old.minimized \/ new.minimized) => Kept(new) = Kept(old)
                    /\ (old.maximized /\ new.maximized) => PreMax(new) = PreMax(old)
          /\ "max" \in Range(did')
             => LET old == Hosts(windows, Last(windows').z)
                    new == Last(windows')
                IN  IF old.maximized
                    THEN Frame(new) = PreMax(old) /\ ~new.maximized
                    ELSE PreMax(new) = Frame(old) /\ new.maximized]_vars
(* the welcome window, maximized and dragged while maximized, is back from  *)
(* the taskbar: still maximized, in the dragged frame, with the frame it    *)
(* had before it was maximized as its snapshot                              *)
C31_Witness ==
    /\ "task_restore" \in Range(did)
    /\ Len(windows) = 1
    /\ windows[1].maximized /\ ~windows[1].minimized
    /\ Frame(windows[1]) # Rect(8, 8, W - 16, H - TASKBAR_H - 16)
    /\ PreMax(windows[1]) = WelcomeFrame

(* C32: an Alt+Tab key-down while the desktop is not sleeping moves the     *)
(* first entry of the z-order to the tail, minimized or not, keeps the      *)
(* order of the others and changes no window; with no window open it        *)
(* changes nothing.                                                         *)
C32_AltTabMovesBottomWindowToTail ==
    [][(IsStep /\ ev'.type = "keydown" /\ ev'.key = "alttab" /\ ~sleeping)
       => /\ windows' = IF windows = <<>> THEN <<>>
                        ELSE Append(Tail(windows), Head(windows))
          /\ status' = status
          /\ UNCHANGED <<icons, start_open, power_open, sleeping, screen, seq>>]_vars
(* the welcome window, minimized at the bottom of a z-order of two, has     *)
(* been moved to the tail, still minimized                                  *)
C32_Witness ==
    /\ "alttab" \in Range(did)
    /\ Len(windows) = 2
    /\ Last(windows).z = 0
    /\ Last(windows).minimized
    /\ ~windows[1].minimized
====
